---- MODULE Spec2Model ----
(***************************************************************************)
(* A model of the sa-placer placement engine (src/src/placer.rs,           *)
(* src/src/fpga_layout.rs, src/src/netlist.rs): the placement solution,    *)
(* its validity check and cost, the three move operators, the two initial  *)
(* placement strategies and the two search drivers (Spec); the             *)
(* construction of a layout by the config_* calls and by                   *)
(* build_simple_fpga_layout, followed by gen_simple_placement (SetupSpec); *)
(* and build_simple_netlist (NetlistSpec).                                 *)
(*                                                                         *)
(* A panic (unwrap on None, failed assert!, empty gen_range) is modelled   *)
(* by pc = "aborted" with the place of the panic recorded in `panic`.      *)
(* Random choices (thread_rng) are nondeterministic choices.               *)
(* cost_bb is an f32 in the source; every cost of the model is an integer  *)
(* far below 2^24, where f32 addition, subtraction and comparison are      *)
(* exact, so costs are modelled as integers.                               *)
(***************************************************************************)
EXTENDS Integers, Sequences, FiniteSets, TLC

VARIABLES
    layout,            \* PlacementSolution.layout  : the shared FPGALayout
    netlist,           \* PlacementSolution.netlist : the shared NetlistGraph
    solution_map,      \* the map of the solution being constructed; later the initial_solution
    next_node,         \* position of the placement loop of gen_*_placement in all_nodes()
    driver,            \* "none", "fast" (fast_sa_placer) or "par" (placer_sa)
    n_steps,           \* parameter of the driver
    n_neighbors,       \* parameter of the driver
    i,                 \* loop counter of the driver
    current_solution,  \* current_solution.solution_map of the driver
    prev_solution,     \* current_solution as it was when the running/last step began
    actions,           \* fast_sa_placer: the operator kinds drawn for the step
    new_solutions,     \* the candidates of the step, in generation-index order
    best_solution,     \* the candidate selected by min_by in the last finished step
    pc,                \* control position
    panic,             \* where the program panicked, when pc = "aborted"
    result             \* what a call of valid() or cost_bb() by the caller returned

vars == <<layout, netlist, solution_map, next_node, driver, n_steps,
          n_neighbors, i, current_solution, prev_solution, actions,
          new_solutions, best_solution, pc, panic, result>>

-----------------------------------------------------------------------------
(* Bounds of the model *)

MaxSteps == 2
MaxNeighbors == 4
MaxParNeighbors == 2

-----------------------------------------------------------------------------
(* fpga_layout.rs : types *)

CLB == "CLB"
DSP == "DSP"
BRAM == "BRAM"
IO == "IO"
EMPTY == "EMPTY"
None == "None"

\* enum MacroType, in the order in which gen_*_placement assert the capacities
MacroType == <<CLB, DSP, BRAM, IO>>

MacroTypeSet == {MacroType[k] : k \in 1..Len(MacroType)}

FPGALayoutCoordinate(x, y) == [x |-> x, y |-> y]

\* enum PlacementAction
MOVE == "MOVE"
SWAP == "SWAP"
MOVE_DIRECTED == "MOVE_DIRECTED"

NetlistNode(id, macro_type) == [id |-> id, macro_type |-> macro_type]

-----------------------------------------------------------------------------
(* Small helpers for the arithmetic and the iterator adaptors of the source *)

Abs(n) == IF n < 0 THEN -n ELSE n

Min2(a, b) == IF a < b THEN a ELSE b

RECURSIVE SeqSum(_)
SeqSum(s) == IF s = <<>> THEN 0 ELSE Head(s) + SeqSum(Tail(s))

\* Iterator::min_by over keys: the fold keeps the accumulator unless the
\* accumulator compares Greater, so the first of several equal minima wins.
RECURSIVE min_by_fold(_, _, _)
min_by_fold(keys, k, acc) ==
    IF k > Len(keys) THEN acc
    ELSE min_by_fold(keys, k + 1, IF keys[acc] > keys[k] THEN k ELSE acc)

\* index of the element Iterator::min_by returns, 0 for None (empty iterator)
min_by(keys) == IF Len(keys) = 0 THEN 0 ELSE min_by_fold(keys, 2, 1)

\* FxHashMap::insert
Insert(m, key, value) ==
    [n \in (DOMAIN m) \cup {key} |-> IF n = key THEN value ELSE m[n]]

\* FxHashMap::default()
EmptyMap == [n \in {} |-> 0]

-----------------------------------------------------------------------------
(* The layouts and netlists the model is run on.  A layout is given by its   *)
(* cells in the scan order of the source (x outer, y inner); "None" marks a  *)
(* coordinate that no config_* call ever inserted into FPGALayout.map.       *)

CoordinateAt(height, k) == FPGALayoutCoordinate((k - 1) \div height, (k - 1) % height)

FPGALayout(width, height, cells) ==
    [width |-> width, height |-> height,
     map |-> [c \in {CoordinateAt(height, k) : k \in {j \in 1..Len(cells) : cells[j] # None}}
                |-> cells[CHOOSE k \in 1..Len(cells) : CoordinateAt(height, k) = c]]]

\*   y=0:  CLB CLB CLB        three CLB sites, two IO sites, every
\*   y=1:  IO  IO  EMPTY      coordinate configured
LayoutRoomy == FPGALayout(3, 2, <<CLB, IO, CLB, IO, CLB, EMPTY>>)

\*   y=0:  CLB CLB EMPTY      two CLB sites, one IO site, every
\*   y=1:  IO  EMPTY EMPTY    coordinate configured
LayoutTight == FPGALayout(3, 2, <<CLB, IO, CLB, EMPTY, EMPTY, EMPTY>>)

\*   y=0:  CLB CLB  -         as LayoutTight plus one more IO site; (2,0) and
\*   y=1:  IO  IO   -         (2,1) were never configured
LayoutSparse == FPGALayout(3, 2, <<CLB, IO, CLB, IO, None, None>>)

Layouts == {LayoutRoomy, LayoutTight, LayoutSparse}

NetlistGraph(nodes, edges) == [nodes |-> nodes, edges |-> edges]

\* two CLB nodes; two parallel edges, an antiparallel edge and a self-loop
NetlistPair ==
    NetlistGraph(<<NetlistNode(1, CLB), NetlistNode(2, CLB)>>,
                 <<<<1, 2>>, <<1, 2>>, <<2, 1>>, <<2, 2>>>>)

\* one CLB node between two IO nodes; the first IO node is tied to it by an
\* edge in each direction, so exchanging the two IO nodes changes the cost
NetlistIO ==
    NetlistGraph(<<NetlistNode(1, IO), NetlistNode(2, CLB), NetlistNode(3, IO)>>,
                 <<<<1, 2>>, <<2, 1>>, <<2, 3>>>>)

\* a CLB node with a self-loop and an IO node with no edge at all
NetlistLoose ==
    NetlistGraph(<<NetlistNode(1, CLB), NetlistNode(2, IO)>>, <<<<1, 1>>>>)

\* a graph without nodes
NetlistEmpty == NetlistGraph(<<>>, <<>>)

Netlists == {NetlistPair, NetlistIO, NetlistLoose, NetlistEmpty}

-----------------------------------------------------------------------------
(* fpga_layout.rs : FPGALayout *)

\* FPGALayout::get -- None out of bounds, EMPTY for a missing key
get(coordinate) ==
    IF coordinate.x >= layout.width \/ coordinate.y >= layout.height THEN None
    ELSE IF coordinate \notin DOMAIN layout.map THEN EMPTY
    ELSE layout.map[coordinate]

\* the coordinates visited by `for x in 0..width { for y in 0..height`, in order
GridSeq == [k \in 1..(layout.width * layout.height) |-> CoordinateAt(layout.height, k)]

Grid == {GridSeq[k] : k \in 1..Len(GridSeq)}

\* FPGALayout::count_summary, the entry of layout_type
layout_count_summary(layout_type) ==
    Cardinality({k \in 1..Len(GridSeq) : get(GridSeq[k]) = layout_type})

-----------------------------------------------------------------------------
(* netlist.rs : NetlistGraph *)

all_nodes == netlist.nodes

node_count == Len(netlist.nodes)

\* graph.node_weight(idx)
node_weight(idx) == netlist.nodes[idx]

\* NetlistGraph::count_summary, the entry of macro_type
netlist_count_summary(macro_type) ==
    Cardinality({k \in 1..node_count : all_nodes[k].macro_type = macro_type})

-----------------------------------------------------------------------------
(* placer.rs : PlacementSolution.  A solution is its solution_map `sol`, a   *)
(* function from NetlistNode values to coordinates; layout and netlist are   *)
(* the shared references.                                                    *)

\* placed_locations of get_possible_sites: the values of the map
placed_locations(sol) == {sol[n] : n \in DOMAIN sol}

\* get_possible_sites reads layout.map directly and unwraps: it panics on the
\* first unoccupied coordinate of the grid that has no entry in the map
get_possible_sites_panics(sol) ==
    \E c \in Grid : c \notin placed_locations(sol) /\ c \notin DOMAIN layout.map

\* get_possible_sites without the placed_locations test
get_possible_sites_ignoring_placed(sol, macro_type) ==
    LET free(c) == /\ c \in DOMAIN layout.map
                   /\ layout.map[c] = macro_type
    IN  SelectSeq(GridSeq, free)

\* get_possible_sites without the comparison of the macro types
get_possible_sites_any_type(sol, macro_type) ==
    LET free(c) == /\ c \notin placed_locations(sol)
                   /\ c \in DOMAIN layout.map
                   /\ layout.map[c] # EMPTY
    IN  SelectSeq(GridSeq, free)

\* get_possible_sites with the inner loop stopping one row early
get_possible_sites_skips_last_row(sol, macro_type) ==
    LET free(c) == /\ c.y < layout.height - 1
                   /\ c \notin placed_locations(sol)
                   /\ c \in DOMAIN layout.map
                   /\ layout.map[c] = macro_type
    IN  SelectSeq(GridSeq, free)

\* PlacementSolution::get_possible_sites, when it does not panic
get_possible_sites(sol, macro_type) ==
    LET placed == placed_locations(sol)
        free(c) == /\ c \notin placed
                   /\ c \in DOMAIN layout.map
                   /\ layout.map[c] = macro_type
    IN  SelectSeq(GridSeq, free)

\* place_node keeping the locations unique by dropping the entry of the node
\* that occupied the location
place_node_evicts_occupant(sol, node, location) ==
    LET kept == {n \in DOMAIN sol : sol[n] # location} \cup {node}
    IN  [n \in kept |-> IF n = node THEN location ELSE sol[n]]

\* PlacementSolution::place_node
place_node(sol, node, location) == Insert(sol, node, location)

\* cost_bb unwraps the location of both endpoints of every edge
cost_bb_panics(sol) ==
    \E e \in 1..Len(netlist.edges) :
        \/ node_weight(netlist.edges[e][1]) \notin DOMAIN sol
        \/ node_weight(netlist.edges[e][2]) \notin DOMAIN sol

\* cost_bb over the set of distinct (source, target) pairs: parallel edges
\* counted once
cost_bb_distinct_edges(sol) ==
    LET pairs == {netlist.edges[e] : e \in 1..Len(netlist.edges)}
        RECURSIVE sum(_)
        sum(S) == IF S = {} THEN 0
                  ELSE LET p == CHOOSE q \in S : TRUE
                           source == node_weight(p[1])
                           target == node_weight(p[2])
                       IN  Abs(sol[source].x - sol[target].x)
                           + Abs(sol[source].y - sol[target].y) + sum(S \ {p})
    IN  sum(pairs)

RECURSIVE cost_bb_loop(_, _, _)
cost_bb_loop(sol, e, cost) ==
    IF e > Len(netlist.edges) THEN cost
    ELSE LET source == node_weight(netlist.edges[e][1])
             target == node_weight(netlist.edges[e][2])
             x_distance == Abs(sol[source].x - sol[target].x)
             y_distance == Abs(sol[source].y - sol[target].y)
             distance == x_distance + y_distance
         IN  cost_bb_loop(sol, e + 1, cost + distance)

\* PlacementSolution::cost_bb, when it does not panic
cost_bb(sol) == cost_bb_loop(sol, 1, 0)

\* The first four checks of PlacementSolution::valid (they never panic):
\* netlist nodes all in the map, map keys all netlist ids, locations used once
valid_keys_and_locations(sol) ==
    /\ \A k \in 1..node_count : all_nodes[k] \in DOMAIN sol
    /\ \A node \in DOMAIN sol : \E k \in 1..node_count : all_nodes[k].id = node.id
    /\ Cardinality(placed_locations(sol)) = Cardinality(DOMAIN sol)

\* the last loop of valid() unwraps layout.get(location): an entry outside the
\* grid panics when the iteration reaches it
valid_panics(sol) ==
    /\ valid_keys_and_locations(sol)
    /\ \E node \in DOMAIN sol : get(sol[node]) = None

\* PlacementSolution::valid, when it does not panic
valid(sol) ==
    /\ valid_keys_and_locations(sol)
    /\ \A node \in DOMAIN sol : get(sol[node]) = node.macro_type

\* valid() can return false: one of the first four checks fails, or the last
\* loop reaches a node on an EMPTY site or on a site of another macro type
\* (the map is iterated in hash order)
valid_returns_false(sol) ==
    \/ ~valid_keys_and_locations(sol)
    \/ \E node \in DOMAIN sol : get(sol[node]) \notin {None, node.macro_type}

-----------------------------------------------------------------------------
(* placer.rs : the move operators.  Each operator is the set of outcomes it  *)
(* can have on the clone `sol`, one per random choice.  An outcome records   *)
(* the operator kind, the index of the node drawn (0: none), whether the     *)
(* call panicked and where, and the solution_map it leaves.                  *)

Returns(action, node, sol) ==
    [panic |-> FALSE, at |-> "", action |-> action, node |-> node, solution_map |-> sol]

Panics(action, node, at, sol) ==
    [panic |-> TRUE, at |-> at, action |-> action, node |-> node, solution_map |-> sol]

\* PlacementSolution::action_move
action_move(sol) ==
    IF node_count = 0 THEN {Returns(MOVE, 0, sol)}
    ELSE UNION {
        LET node == all_nodes[k] IN
        IF get_possible_sites_panics(sol)
        THEN {Panics(MOVE, k, "get_possible_sites", sol)}
        ELSE LET possible_sites == get_possible_sites(sol, node.macro_type) IN
             IF Len(possible_sites) = 0
             THEN {Returns(MOVE, k, sol)}
             ELSE {Returns(MOVE, k, Insert(sol, node, possible_sites[l]))
                     : l \in 1..Len(possible_sites)}
        : k \in 1..node_count}

\* action_swap with the second insert left out
action_swap_one_sided(sol) ==
    IF node_count = 0 THEN {Returns(SWAP, 0, sol)}
    ELSE UNION {
        LET node_a == all_nodes[k]
            nodes_same_type ==
                SelectSeq(all_nodes, LAMBDA node : node.macro_type = node_a.macro_type)
        IN  {LET node_b == nodes_same_type[l] IN
             IF node_a \in DOMAIN sol /\ node_b \in DOMAIN sol
             THEN Returns(SWAP, k, Insert(sol, node_a, sol[node_b]))
             ELSE Returns(SWAP, k, sol)
               : l \in 1..Len(nodes_same_type)}
        : k \in 1..node_count}

\* PlacementSolution::action_swap
action_swap(sol) ==
    IF node_count = 0 THEN {Returns(SWAP, 0, sol)}
    ELSE UNION {
        LET node_a == all_nodes[k]
            nodes_same_type ==
                SelectSeq(all_nodes, LAMBDA node : node.macro_type = node_a.macro_type)
        IN  {LET node_b == nodes_same_type[l] IN
             IF node_a \in DOMAIN sol /\ node_b \in DOMAIN sol
             THEN Returns(SWAP, k, Insert(Insert(sol, node_a, sol[node_b]), node_b, sol[node_a]))
             ELSE Returns(SWAP, k, sol)
               : l \in 1..Len(nodes_same_type)}
        : k \in 1..node_count}

\* x_mean and y_mean of action_move_directed (u32 division truncates)
x_mean(sol) == SeqSum([k \in 1..node_count |-> sol[all_nodes[k]].x]) \div node_count

y_mean(sol) == SeqSum([k \in 1..node_count |-> sol[all_nodes[k]].y]) \div node_count

\* the distance to the mean, as computed in action_move_directed
mean_distance(sol, location) ==
    Abs(location.x - x_mean(sol)) + Abs(location.y - y_mean(sol))

\* the rejection test with >= for >
move_directed_rejects_equal(new_distance, current_distance) ==
    new_distance >= current_distance

\* the test of action_move_directed that rejects the closest location
move_directed_rejects(new_distance, current_distance) == new_distance > current_distance

\* action_move_directed returning at once on a netlist without nodes, as
\* action_move and action_swap do
action_move_directed_returns_on_empty(sol) ==
    IF node_count = 0 THEN {Returns(MOVE_DIRECTED, 0, sol)}
    ELSE IF \E k \in 1..node_count : all_nodes[k] \notin DOMAIN sol
    THEN {Panics(MOVE_DIRECTED, 0, "mean unwrap", sol)}
    ELSE {
        LET node == all_nodes[k] IN
        IF get_possible_sites_panics(sol)
        THEN Panics(MOVE_DIRECTED, k, "get_possible_sites", sol)
        ELSE LET valid_locations == get_possible_sites(sol, node.macro_type)
                 closest == min_by([l \in 1..Len(valid_locations)
                                      |-> mean_distance(sol, valid_locations[l])])
             IN  IF closest = 0
                 THEN Panics(MOVE_DIRECTED, k, "min_by unwrap", sol)
                 ELSE LET valid_closest_location == valid_locations[closest]
                          current_distance == mean_distance(sol, sol[node])
                          new_distance == mean_distance(sol, valid_closest_location)
                      IN  IF move_directed_rejects(new_distance, current_distance)
                          THEN Returns(MOVE_DIRECTED, k, sol)
                          ELSE Returns(MOVE_DIRECTED, k,
                                       Insert(sol, node, valid_closest_location))
        : k \in 1..node_count}

\* PlacementSolution::action_move_directed
action_move_directed(sol) ==
    IF node_count = 0 THEN {Panics(MOVE_DIRECTED, 0, "node_count == 0", sol)}
    ELSE IF \E k \in 1..node_count : all_nodes[k] \notin DOMAIN sol
    THEN {Panics(MOVE_DIRECTED, 0, "mean unwrap", sol)}
    ELSE {
        LET node == all_nodes[k] IN
        IF get_possible_sites_panics(sol)
        THEN Panics(MOVE_DIRECTED, k, "get_possible_sites", sol)
        ELSE LET valid_locations == get_possible_sites(sol, node.macro_type)
                 closest == min_by([l \in 1..Len(valid_locations)
                                      |-> mean_distance(sol, valid_locations[l])])
             IN  IF closest = 0
                 THEN Panics(MOVE_DIRECTED, k, "min_by unwrap", sol)
                 ELSE LET valid_closest_location == valid_locations[closest]
                          current_distance == mean_distance(sol, sol[node])
                          new_distance == mean_distance(sol, valid_closest_location)
                      IN  IF move_directed_rejects(new_distance, current_distance)
                          THEN Returns(MOVE_DIRECTED, k, sol)
                          ELSE Returns(MOVE_DIRECTED, k,
                                       Insert(sol, node, valid_closest_location))
        : k \in 1..node_count}

\* action applying the operator a second time to what the first application left
action_applied_twice(sol, kind) ==
    LET once(s) == CASE kind = MOVE -> action_move(s)
                     [] kind = SWAP -> action_swap(s)
                     [] kind = MOVE_DIRECTED -> action_move_directed(s)
    IN  UNION {IF first.panic THEN {first} ELSE once(first.solution_map) : first \in once(sol)}

\* PlacementSolution::action
action(sol, kind) ==
    CASE kind = MOVE -> action_move(sol)
      [] kind = SWAP -> action_swap(sol)
      [] kind = MOVE_DIRECTED -> action_move_directed(sol)

-----------------------------------------------------------------------------
(* Control state shared by the actions *)

NoPanic == [at |-> "", action |-> "", node |-> 0]

\* the place holder of a candidate that does not exist (yet)
NoSolution == [action |-> "", node |-> 0, solution_map |-> EmptyMap, cost |-> 0]

\* no call of valid() or cost_bb() by the caller has returned
NoResult == [call |-> "", valid |-> FALSE, cost_bb |-> 0]

Abort(at, kind, node) ==
    /\ pc' = "aborted"
    /\ panic' = [at |-> at, action |-> kind, node |-> node]

driver_vars == <<driver, n_steps, n_neighbors, i, current_solution, prev_solution,
                 actions, new_solutions, best_solution>>

Init ==
    /\ layout \in Layouts
    /\ netlist \in Netlists
    /\ solution_map = EmptyMap          \* PlacementSolution::new
    /\ next_node = 1
    /\ driver = "none"
    /\ n_steps = 0
    /\ n_neighbors = 0
    /\ i = 0
    /\ current_solution = EmptyMap
    /\ prev_solution = EmptyMap
    /\ actions = <<>>
    /\ new_solutions = <<>>
    /\ best_solution = NoSolution
    /\ pc = "new"
    /\ panic = NoPanic
    /\ result = NoResult

-----------------------------------------------------------------------------
(* A caller populating a solution with place_node, node by node *)

\* the coordinates handed to place_node: those of the grid, and one beyond the
\* last column and one beyond the last row
PlaceableCoordinates ==
    Grid \cup {FPGALayoutCoordinate(layout.width, 0), FPGALayoutCoordinate(0, layout.height)}

PlaceNode ==
    /\ pc = "new"
    /\ \E k \in 1..node_count, location \in PlaceableCoordinates :
          solution_map' = place_node(solution_map, all_nodes[k], location)
    /\ UNCHANGED <<layout, netlist, result, next_node, driver_vars, pc, panic>>

\* the caller asks solution.valid() of the solution it has populated
Valid ==
    /\ pc = "new"
    /\ \/ /\ valid_panics(solution_map)
          /\ Abort("valid unwrap", "valid", 0)
          /\ UNCHANGED result
       \/ /\ valid_returns_false(solution_map)
          /\ result' = [call |-> "valid", valid |-> FALSE, cost_bb |-> 0]
          /\ pc' = "returned"
          /\ UNCHANGED panic
       \/ /\ ~valid_panics(solution_map) /\ valid(solution_map)
          /\ result' = [call |-> "valid", valid |-> TRUE, cost_bb |-> 0]
          /\ pc' = "returned"
          /\ UNCHANGED panic
    /\ UNCHANGED <<layout, netlist, solution_map, next_node, driver_vars>>

\* the caller asks solution.cost_bb() of the solution it has populated
CostBb ==
    /\ pc = "new"
    /\ IF cost_bb_panics(solution_map)
       THEN Abort("cost_bb unwrap", "cost_bb", 0) /\ UNCHANGED result
       ELSE /\ result' = [call |-> "cost_bb", valid |-> FALSE,
                         cost_bb |-> cost_bb(solution_map)]
            /\ pc' = "returned"
            /\ UNCHANGED panic
    /\ UNCHANGED <<layout, netlist, solution_map, next_node, driver_vars>>

-----------------------------------------------------------------------------
(* placer.rs : gen_random_placement and gen_simple_placement *)

\* the capacity loop stopping one macro type early
capacity_assert_skips_last ==
    \A t \in 1..(Len(MacroType) - 1) :
        layout_count_summary(MacroType[t]) >= netlist_count_summary(MacroType[t])

\* the four assert! of the capacity loop
capacity_assert ==
    \A t \in 1..Len(MacroType) :
        layout_count_summary(MacroType[t]) >= netlist_count_summary(MacroType[t])

\* entry of gen_random_placement / gen_simple_placement up to the placement loop
GenAssert(strategy) ==
    /\ pc = "new"
    /\ solution_map = EmptyMap
    /\ IF capacity_assert
       THEN pc' = strategy /\ panic' = panic
       ELSE Abort("capacity assert", strategy, 0)
    /\ next_node' = 1
    /\ UNCHANGED <<layout, netlist, result, solution_map, driver_vars>>

GenRandomAssert == GenAssert("gen_random_placement")

GenSimpleAssert == GenAssert("gen_simple_placement")

\* one iteration of the placement loop of gen_random_placement
GenRandomPlace ==
    /\ pc = "gen_random_placement"
    /\ next_node <= node_count
    /\ LET node == all_nodes[next_node] IN
       IF get_possible_sites_panics(solution_map)
       THEN Abort("get_possible_sites", pc, next_node)
            /\ UNCHANGED <<solution_map, next_node>>
       ELSE LET possible_sites == get_possible_sites(solution_map, node.macro_type) IN
            IF Len(possible_sites) = 0
            THEN Abort("gen_range on empty range", pc, next_node)
                 /\ UNCHANGED <<solution_map, next_node>>
            ELSE /\ \E l \in 1..Len(possible_sites) :
                       solution_map' = place_node(solution_map, node, possible_sites[l])
                 /\ next_node' = next_node + 1
                 /\ UNCHANGED <<pc, panic>>
    /\ UNCHANGED <<layout, netlist, result, driver_vars>>

\* the placement loop of gen_simple_placement taking the first possible site
\* of the scan instead of the one nearest to the origin
GenSimplePlaceFirstSite ==
    /\ pc = "gen_simple_placement"
    /\ next_node <= node_count
    /\ LET node == all_nodes[next_node] IN
       IF get_possible_sites_panics(solution_map)
       THEN Abort("get_possible_sites", pc, next_node)
            /\ UNCHANGED <<solution_map, next_node>>
       ELSE LET possible_sites == get_possible_sites(solution_map, node.macro_type)
            IN  IF Len(possible_sites) = 0
                THEN Abort("min_by unwrap", pc, next_node)
                     /\ UNCHANGED <<solution_map, next_node>>
                ELSE /\ solution_map' = place_node(solution_map, node, possible_sites[1])
                     /\ next_node' = next_node + 1
                     /\ UNCHANGED <<pc, panic>>
    /\ UNCHANGED <<layout, netlist, result, driver_vars>>

\* one iteration of the placement loop of gen_simple_placement
GenSimplePlace ==
    /\ pc = "gen_simple_placement"
    /\ next_node <= node_count
    /\ LET node == all_nodes[next_node] IN
       IF get_possible_sites_panics(solution_map)
       THEN Abort("get_possible_sites", pc, next_node)
            /\ UNCHANGED <<solution_map, next_node>>
       ELSE LET possible_sites == get_possible_sites(solution_map, node.macro_type)
                location == min_by([l \in 1..Len(possible_sites)
                                      |-> possible_sites[l].x + possible_sites[l].y])
            IN  IF location = 0
                THEN Abort("min_by unwrap", pc, next_node)
                     /\ UNCHANGED <<solution_map, next_node>>
                ELSE /\ solution_map' = place_node(solution_map, node, possible_sites[location])
                     /\ next_node' = next_node + 1
                     /\ UNCHANGED <<pc, panic>>
    /\ UNCHANGED <<layout, netlist, result, driver_vars>>

\* assert!(solution.valid()); solution
GenReturn ==
    /\ pc \in {"gen_random_placement", "gen_simple_placement"}
    /\ next_node > node_count
    /\ IF valid_panics(solution_map) THEN Abort("valid unwrap", pc, 0)
       ELSE IF valid(solution_map) THEN pc' = "placed" /\ panic' = panic
       ELSE Abort("assert valid", pc, 0)
    /\ UNCHANGED <<layout, netlist, result, solution_map, next_node, driver_vars>>

-----------------------------------------------------------------------------
(* placer.rs : the search drivers fast_sa_placer and placer_sa *)

\* the drivers are handed a solution for which valid() holds: the result of
\* gen_*_placement, or one populated with place_node
InitialSolutionReady ==
    \/ pc = "placed"
    \/ pc = "new" /\ ~valid_panics(solution_map) /\ valid(solution_map)

DriverCall(name, MaxN) ==
    /\ InitialSolutionReady
    /\ \E steps \in {0, MaxSteps}, neighbors \in 0..MaxN :
          /\ n_steps' = steps
          /\ n_neighbors' = neighbors
    /\ driver' = name
    /\ i' = 0
    /\ current_solution' = solution_map      \* initial_solution.clone()
    /\ prev_solution' = solution_map
    /\ pc' = "sa_loop"
    /\ UNCHANGED <<layout, netlist, result, solution_map, next_node, actions,
                   new_solutions, best_solution, panic>>

FastSaPlacerCall == DriverCall("fast", MaxNeighbors)

\* the Renderer of placer_sa is not part of the model; render_frequency is
\* taken to be at least 1 (i % render_frequency)
PlacerSaCall == DriverCall("par", MaxParNeighbors)

\* the three operator kinds of fast_sa_placer, the two of placer_sa
fast_actions == <<MOVE, SWAP, MOVE_DIRECTED>>

\* the operator list of placer_sa with MOVE_DIRECTED added
par_actions_with_directed == <<MOVE, SWAP, MOVE_DIRECTED>>

par_actions == <<MOVE, SWAP>>

\* amount independent draws from the slice, repeats allowed
choose_multiple_with_replacement(slice, amount) ==
    {[k \in 1..amount |-> slice[p[k]]] : p \in [1..amount -> 1..Len(slice)]}

\* actions.choose_multiple(&mut rng, amount): min(amount, len) distinct
\* elements of the slice, in random order
choose_multiple(slice, amount) ==
    {[k \in 1..Min2(amount, Len(slice)) |-> slice[p[k]]] :
        p \in {q \in [1..Min2(amount, Len(slice)) -> 1..Len(slice)] :
                 \A a, b \in DOMAIN q : a # b => q[a] # q[b]}}

\* a scored candidate: the outcome of one operator on a clone, and its cost_bb
Scored(outcome) ==
    [action |-> outcome.action, node |-> outcome.node,
     solution_map |-> outcome.solution_map, cost |-> cost_bb(outcome.solution_map)]

\* the selection with the comparison reversed (max_by for min_by)
best_index_reversed(candidates, current_cost) ==
    min_by([k \in 1..Len(candidates) |-> current_cost - candidates[k].cost])

\* the index min_by selects among the candidates, comparing cost - current cost
best_index(candidates, current_cost) ==
    min_by([k \in 1..Len(candidates) |-> candidates[k].cost - current_cost])

\* the acceptance test with the comparison flipped
accepts_worse(best_delta) == best_delta > 0

\* the acceptance test with <= for <
accepts_ties(best_delta) == best_delta <= 0

\* `if best_delta < 0.0` / `if delta_cost < 0.0`
accepts(best_delta) == best_delta < 0

\* fast_sa_placer: head of a loop iteration, the draw of the operator kinds
FastDraw ==
    /\ pc = "sa_loop" /\ driver = "fast" /\ i < n_steps
    /\ actions' \in choose_multiple(fast_actions, n_neighbors)
    /\ new_solutions' = <<>>
    /\ best_solution' = NoSolution
    /\ prev_solution' = current_solution
    /\ pc' = "sa_gen"
    /\ UNCHANGED <<layout, netlist, result, solution_map, next_node, driver, n_steps,
                   n_neighbors, i, current_solution, panic>>

\* fast_sa_placer: the next element of the lazy `actions.map(...)`
FastNeighbor ==
    /\ pc = "sa_gen" /\ driver = "fast"
    /\ Len(new_solutions) < Len(actions)
    /\ \E outcome \in action(current_solution, actions[Len(new_solutions) + 1]) :
          IF outcome.panic
          THEN Abort(outcome.at, outcome.action, outcome.node)
               /\ UNCHANGED new_solutions
          ELSE /\ new_solutions' = Append(new_solutions, Scored(outcome))
               /\ UNCHANGED <<pc, panic>>
    /\ UNCHANGED <<layout, netlist, result, solution_map, next_node, driver, n_steps,
                   n_neighbors, i, current_solution, prev_solution, actions,
                   best_solution>>

\* the selection of the best candidate and the acceptance test, shared text of
\* both drivers
SelectAndAccept ==
    LET current_cost == cost_bb(current_solution)
        best == new_solutions[best_index(new_solutions, current_cost)]
        best_delta == best.cost - current_cost
    IN  /\ best_solution' = best
        /\ current_solution' = IF accepts(best_delta) THEN best.solution_map
                               ELSE current_solution
        /\ i' = i + 1
        /\ pc' = "sa_loop"
        /\ panic' = panic

\* the selection of fast_sa_placer treating an empty candidate list as
\* placer_sa does: no candidate, no change
FastSelectSkipsEmpty ==
    /\ pc = "sa_gen" /\ driver = "fast"
    /\ Len(new_solutions) = Len(actions)
    /\ IF Len(new_solutions) = 0
       THEN /\ i' = i + 1
            /\ pc' = "sa_loop"
            /\ UNCHANGED <<best_solution, current_solution, panic>>
       ELSE SelectAndAccept
    /\ UNCHANGED <<layout, netlist, result, solution_map, next_node, driver, n_steps,
                   n_neighbors, prev_solution, actions, new_solutions>>

\* fast_sa_placer: min_by(...).unwrap() and the acceptance
FastSelect ==
    /\ pc = "sa_gen" /\ driver = "fast"
    /\ Len(new_solutions) = Len(actions)
    /\ IF Len(new_solutions) = 0
       THEN Abort("min_by unwrap", "fast_sa_placer", 0)
            /\ UNCHANGED <<best_solution, current_solution, i>>
       ELSE SelectAndAccept
    /\ UNCHANGED <<layout, netlist, result, solution_map, next_node, driver, n_steps,
                   n_neighbors, prev_solution, actions, new_solutions>>

\* placer_sa: head of a loop iteration, the fork of the n_neighbors tasks
ParFork ==
    /\ pc = "sa_loop" /\ driver = "par" /\ i < n_steps
    /\ new_solutions' = [k \in 1..n_neighbors |-> NoSolution]
    /\ best_solution' = NoSolution
    /\ prev_solution' = current_solution
    /\ pc' = "sa_gen"
    /\ UNCHANGED <<layout, netlist, result, solution_map, next_node, driver, n_steps,
                   n_neighbors, i, current_solution, actions, panic>>

\* the tasks of the parallel map applying their operator to the one shared
\* current solution instead of a clone of it
ParNeighborOnShared ==
    /\ pc = "sa_gen" /\ driver = "par"
    /\ \E k \in 1..Len(new_solutions) :
          /\ new_solutions[k] = NoSolution
          /\ \E a \in 1..Len(par_actions) :
               \E outcome \in action(current_solution, par_actions[a]) :
                  IF outcome.panic
                  THEN Abort(outcome.at, outcome.action, outcome.node)
                       /\ UNCHANGED <<new_solutions, current_solution>>
                  ELSE IF cost_bb_panics(outcome.solution_map)
                  THEN Abort("cost_bb unwrap", outcome.action, outcome.node)
                       /\ UNCHANGED <<new_solutions, current_solution>>
                  ELSE /\ new_solutions' = [new_solutions EXCEPT ![k] = Scored(outcome)]
                       /\ current_solution' = outcome.solution_map
                       /\ UNCHANGED <<pc, panic>>
    /\ UNCHANGED <<layout, netlist, result, solution_map, next_node, driver, n_steps,
                   n_neighbors, i, prev_solution, actions, best_solution>>

\* placer_sa: one task of the parallel map, tasks finish in any order
ParNeighbor ==
    /\ pc = "sa_gen" /\ driver = "par"
    /\ \E k \in 1..Len(new_solutions) :
          /\ new_solutions[k] = NoSolution
          /\ \E a \in 1..Len(par_actions) :
               \E outcome \in action(current_solution, par_actions[a]) :
                  IF outcome.panic
                  THEN Abort(outcome.at, outcome.action, outcome.node)
                       /\ UNCHANGED new_solutions
                  ELSE IF cost_bb_panics(outcome.solution_map)
                  THEN Abort("cost_bb unwrap", outcome.action, outcome.node)
                       /\ UNCHANGED new_solutions
                  ELSE /\ new_solutions' = [new_solutions EXCEPT ![k] = Scored(outcome)]
                       /\ UNCHANGED <<pc, panic>>
    /\ UNCHANGED <<layout, netlist, result, solution_map, next_node, driver, n_steps,
                   n_neighbors, i, current_solution, prev_solution, actions,
                   best_solution>>

\* the selection of placer_sa not waiting for the tasks: it runs on whatever
\* has been delivered when at least one task has finished
ParSelectEarly ==
    /\ pc = "sa_gen" /\ driver = "par"
    /\ \/ Len(new_solutions) = 0
       \/ \E k \in 1..Len(new_solutions) : new_solutions[k] # NoSolution
    /\ IF Len(new_solutions) = 0
       THEN /\ i' = i + 1
            /\ pc' = "sa_loop"
            /\ UNCHANGED <<best_solution, current_solution, panic>>
       ELSE LET delivered == SelectSeq(new_solutions, LAMBDA c : c # NoSolution)
                current_cost == cost_bb(current_solution)
                best == delivered[best_index(delivered, current_cost)]
            IN  /\ best_solution' = best
                /\ current_solution' = IF accepts(best.cost - current_cost)
                                       THEN best.solution_map ELSE current_solution
                /\ i' = i + 1
                /\ pc' = "sa_loop"
                /\ panic' = panic
    /\ UNCHANGED <<layout, netlist, result, solution_map, next_node, driver, n_steps,
                   n_neighbors, prev_solution, actions, new_solutions>>

\* placer_sa: collect(), `if let Some(..) = min_by(..)` and the acceptance
ParSelect ==
    /\ pc = "sa_gen" /\ driver = "par"
    /\ \A k \in 1..Len(new_solutions) : new_solutions[k] # NoSolution
    /\ IF Len(new_solutions) = 0
       THEN /\ i' = i + 1
            /\ pc' = "sa_loop"
            /\ UNCHANGED <<best_solution, current_solution, panic>>
       ELSE SelectAndAccept
    /\ UNCHANGED <<layout, netlist, result, solution_map, next_node, driver, n_steps,
                   n_neighbors, prev_solution, actions, new_solutions>>

\* both drivers: the loop is exhausted, current_solution is returned and the
\* other locals are dropped
SaReturn ==
    /\ pc = "sa_loop" /\ i >= n_steps
    /\ pc' = "done"
    /\ actions' = <<>>
    /\ new_solutions' = <<>>
    /\ best_solution' = NoSolution
    /\ prev_solution' = current_solution
    /\ UNCHANGED <<layout, netlist, result, solution_map, next_node, driver, n_steps,
                   n_neighbors, i, current_solution, panic>>

Next ==
    \/ PlaceNode
    \/ Valid
    \/ CostBb
    \/ GenRandomAssert
    \/ GenSimpleAssert
    \/ GenRandomPlace
    \/ GenSimplePlace
    \/ GenReturn
    \/ FastSaPlacerCall
    \/ PlacerSaCall
    \/ FastDraw
    \/ FastNeighbor
    \/ FastSelect
    \/ ParFork
    \/ ParNeighbor
    \/ ParSelect
    \/ SaReturn

Spec == Init /\ [][Next]_vars

-----------------------------------------------------------------------------
(* fpga_layout.rs : the construction of a layout.  Coordinates, widths and   *)
(* heights are u32.  An addition or subtraction that leaves the u32 range    *)
(* panics in a build with overflow checks and wraps in a build without; the  *)
(* parameter overflow_checks of the operators selects the build.  The        *)
(* integers of the model checker end at 2^31 - 1, so U32_MAX stands for      *)
(* 2^32 - 1: all that matters of it is that it exceeds every width, height   *)
(* and origin of the model and that one more than it is zero.                *)

U32_MAX == 2147483647

checked_add_overflows(a, b) == b > U32_MAX - a

wrapping_add(a, b) == IF checked_add_overflows(a, b) THEN a - (U32_MAX - b) - 1 ELSE a + b

checked_sub_overflows(a, b) == a < b

wrapping_sub(a, b) == IF checked_sub_overflows(a, b) THEN U32_MAX - (b - a) + 1 ELSE a - b

\* FPGALayout::new
FPGALayout_new(width, height) == [width |-> width, height |-> height, map |-> EmptyMap]

\* what a config_* call leaves: whether it panicked, where, and the map
Configured(map) == [panic |-> FALSE, at |-> "", map |-> map]

ConfigPanics(at, map) == [panic |-> TRUE, at |-> at, map |-> map]

\* an insert whose coordinate is computed with `- 1`, and whether that wraps
InsertAt(x, y, overflow) == [c |-> FPGALayoutCoordinate(x, y), overflow |-> overflow]

\* self.map.insert(c, layout_type.clone()) for the first n of the inserts
RECURSIVE insert_prefix(_, _, _, _)
insert_prefix(map, inserts, n, layout_type) ==
    IF n = 0 THEN map
    ELSE Insert(insert_prefix(map, inserts, n - 1, layout_type), inserts[n].c, layout_type)

\* the inserts in program order, up to the first whose coordinate overflows
\* when overflows are checked
run_inserts(map, inserts, layout_type, overflow_checks) ==
    LET overflowing == {k \in 1..Len(inserts) : inserts[k].overflow}
        first == CHOOSE k \in overflowing : \A j \in overflowing : k <= j
    IN  IF overflow_checks /\ overflowing # {}
        THEN ConfigPanics("attempt to subtract with overflow",
                          insert_prefix(map, inserts, first - 1, layout_type))
        ELSE Configured(insert_prefix(map, inserts, Len(inserts), layout_type))

\* FPGALayout::config_corners
config_corners(l, layout_type, overflow_checks) ==
    LET right == wrapping_sub(l.width, 1)
        bottom == wrapping_sub(l.height, 1)
        no_right == checked_sub_overflows(l.width, 1)
        no_bottom == checked_sub_overflows(l.height, 1)
    IN  run_inserts(l.map,
                    <<InsertAt(0, 0, FALSE),
                      InsertAt(0, bottom, no_bottom),
                      InsertAt(right, 0, no_right),
                      InsertAt(right, bottom, no_right \/ no_bottom)>>,
                    layout_type, overflow_checks)

\* FPGALayout::config_border: the loop over x, then the loop over y
config_border(l, layout_type, overflow_checks) ==
    LET right == wrapping_sub(l.width, 1)
        bottom == wrapping_sub(l.height, 1)
        no_right == checked_sub_overflows(l.width, 1)
        no_bottom == checked_sub_overflows(l.height, 1)
        over_x == [k \in 1..(2 * l.width) |->
                     IF k % 2 = 1 THEN InsertAt((k - 1) \div 2, 0, FALSE)
                     ELSE InsertAt((k - 1) \div 2, bottom, no_bottom)]
        over_y == [k \in 1..(2 * l.height) |->
                     IF k % 2 = 1 THEN InsertAt(0, (k - 1) \div 2, FALSE)
                     ELSE InsertAt(right, (k - 1) \div 2, no_right)]
    IN  run_inserts(l.map, over_x \o over_y, layout_type, overflow_checks)

\* the values of (start..end).step_by(step) that pass `v >= limit => continue`
\* with the comparison made one too lenient (>)
stepped_within_inclusive(start, end, step, limit) ==
    {v \in start..Min2(end - 1, limit) : (v - start) % step = 0}

\* the values of (start..end).step_by(step) that pass `v >= limit => continue`
stepped_within(start, end, step, limit) ==
    {v \in start..(Min2(end, limit) - 1) : (v - start) % step = 0}

\* FPGALayout::config_repeat.  x + width is computed before step_by asserts
\* step != 0; y + height and the inner step_by are computed in the body of
\* the outer loop, which runs when x..(x + width) is not empty; nothing is
\* inserted before the inner range of the first outer iteration exists.
config_repeat(l, x, y, width, height, step_x, step_y, layout_type, overflow_checks) ==
    LET x_end == wrapping_add(x, width)
        y_end == wrapping_add(y, height)
    IN  IF overflow_checks /\ checked_add_overflows(x, width)
        THEN ConfigPanics("attempt to add with overflow", l.map)
        ELSE IF step_x = 0 THEN ConfigPanics("assertion failed: step != 0", l.map)
        ELSE IF x >= x_end THEN Configured(l.map)
        ELSE IF overflow_checks /\ checked_add_overflows(y, height)
        THEN ConfigPanics("attempt to add with overflow", l.map)
        ELSE IF step_y = 0 THEN ConfigPanics("assertion failed: step != 0", l.map)
        ELSE LET xs == stepped_within(x, x_end, step_x, l.width)
                 ys == stepped_within(y, y_end, step_y, l.height)
                 filled == {FPGALayoutCoordinate(cx, cy) : cx \in xs, cy \in ys}
             IN  Configured([c \in (DOMAIN l.map) \cup filled |->
                               IF c \in filled THEN layout_type ELSE l.map[c]])

\* FPGALayout::valid
layout_valid(l) == \A coord \in DOMAIN l.map : ~(coord.x >= l.width \/ coord.y >= l.height)

\* what build_simple_fpga_layout leaves: whether it panicked, where, and the layout
Built(l) == [panic |-> FALSE, at |-> "", layout |-> l]

BuildPanics(at, l) == [panic |-> TRUE, at |-> at, layout |-> l]

\* build_simple_fpga_layout
build_simple_fpga_layout(width, height, overflow_checks) ==
    LET new == FPGALayout_new(width, height)
        border == config_border(new, IO, overflow_checks)
        l1 == [new EXCEPT !.map = border.map]
        corners == config_corners(l1, EMPTY, overflow_checks)
        l2 == [new EXCEPT !.map = corners.map]
        inner_width == wrapping_sub(width, 2)
        inner_height == wrapping_sub(height, 2)
        clb == config_repeat(l2, 1, 1, inner_width, inner_height, 1, 1, CLB, overflow_checks)
        l3 == [new EXCEPT !.map = clb.map]
        bram == config_repeat(l3, 10, 1, inner_width, inner_height, 10, 1, BRAM,
                              overflow_checks)
        l4 == [new EXCEPT !.map = bram.map]
    IN  IF border.panic THEN BuildPanics(border.at, l1)
        ELSE IF corners.panic THEN BuildPanics(corners.at, l2)
        ELSE IF overflow_checks /\ (checked_sub_overflows(width, 2)
                                    \/ checked_sub_overflows(height, 2))
        THEN BuildPanics("attempt to subtract with overflow", l2)
        ELSE IF clb.panic THEN BuildPanics(clb.at, l3)
        ELSE IF bram.panic THEN BuildPanics(bram.at, l4)
        ELSE IF ~layout_valid(l4) THEN BuildPanics("assert valid", l4)
        ELSE Built(l4)

-----------------------------------------------------------------------------
(* The setup of a placement problem: a layout is configured call by call or  *)
(* built by build_simple_fpga_layout, a PlacementSolution is created over it *)
(* and a netlist, and gen_simple_placement fills it.                         *)

\* the sizes of the layouts that are configured call by call
LayoutSizes == {<<0, 0>>, <<0, 1>>, <<1, 0>>, <<1, 1>>, <<3, 1>>, <<1, 3>>, <<2, 2>>}

\* the layout types handed to the config_* calls
ConfigTypes == {CLB, IO, EMPTY}

\* the origins, region sizes and steps handed to config_repeat
Origins == {0, 1, U32_MAX}

Extents == {2, U32_MAX}

Steps == {0, 1, 2}

\* the largest width and height handed to build_simple_fpga_layout
MaxBuildWidth == 11
MaxBuildHeight == 5

\* two CLB nodes connected by one edge
NetlistEdge ==
    NetlistGraph(<<NetlistNode(1, CLB), NetlistNode(2, CLB)>>, <<<<1, 2>>>>)

\* three CLB nodes in a chain
NetlistChain ==
    NetlistGraph(<<NetlistNode(1, CLB), NetlistNode(2, CLB), NetlistNode(3, CLB)>>,
                 <<<<1, 2>>, <<2, 3>>>>)

SetupNetlists == {NetlistEdge, NetlistChain, NetlistIO}

SetupInit ==
    /\ \E size \in LayoutSizes : layout = FPGALayout_new(size[1], size[2])
    /\ netlist = NetlistEmpty               \* no netlist yet
    /\ solution_map = EmptyMap
    /\ next_node = 1
    /\ driver = "none"
    /\ n_steps = 0
    /\ n_neighbors = 0
    /\ i = 0
    /\ current_solution = EmptyMap
    /\ prev_solution = EmptyMap
    /\ actions = <<>>
    /\ new_solutions = <<>>
    /\ best_solution = NoSolution
    /\ pc = "layout"
    /\ panic = NoPanic
    /\ result = NoResult

\* a config_* call on the layout under construction
Config(name, outcome) ==
    /\ layout' = [layout EXCEPT !.map = outcome.map]
    /\ IF outcome.panic THEN Abort(outcome.at, name, 0)
       ELSE pc' = "layout" /\ panic' = panic
    /\ UNCHANGED <<netlist, result, solution_map, next_node, driver_vars>>

ConfigCorners ==
    /\ pc = "layout"
    /\ \E layout_type \in ConfigTypes, overflow_checks \in BOOLEAN :
          Config("config_corners", config_corners(layout, layout_type, overflow_checks))

ConfigBorder ==
    /\ pc = "layout"
    /\ \E layout_type \in ConfigTypes, overflow_checks \in BOOLEAN :
          Config("config_border", config_border(layout, layout_type, overflow_checks))

ConfigRepeat ==
    /\ pc = "layout"
    /\ \E x \in Origins, y \in Origins, width \in Extents, height \in Extents,
          step_x \in Steps, step_y \in Steps, layout_type \in ConfigTypes,
          overflow_checks \in BOOLEAN :
          Config("config_repeat",
                 config_repeat(layout, x, y, width, height, step_x, step_y,
                               layout_type, overflow_checks))

\* the caller asks layout.valid() of the layout it has configured
LayoutValid ==
    /\ pc = "layout"
    /\ result' = [call |-> "layout.valid", valid |-> layout_valid(layout), cost_bb |-> 0]
    /\ pc' = "checked"
    /\ UNCHANGED <<layout, netlist, solution_map, next_node, driver_vars, panic>>

\* the caller has the layout built by build_simple_fpga_layout instead
BuildSimpleFpgaLayout ==
    /\ pc = "layout"
    /\ layout.map = EmptyMap
    /\ \E width \in 0..MaxBuildWidth, height \in 0..MaxBuildHeight,
          overflow_checks \in BOOLEAN :
          LET built == build_simple_fpga_layout(width, height, overflow_checks) IN
          /\ layout' = built.layout
          /\ IF built.panic THEN Abort(built.at, "build_simple_fpga_layout", 0)
             ELSE pc' = "built" /\ panic' = panic
    /\ UNCHANGED <<netlist, result, solution_map, next_node, driver_vars>>

\* PlacementSolution::new(&layout, &netlist)
New ==
    /\ pc \in {"layout", "checked", "built"}
    /\ netlist' \in SetupNetlists
    /\ solution_map' = EmptyMap
    /\ pc' = "new"
    /\ UNCHANGED <<layout, result, next_node, driver_vars, panic>>

SetupNext ==
    \/ ConfigCorners
    \/ ConfigBorder
    \/ ConfigRepeat
    \/ LayoutValid
    \/ BuildSimpleFpgaLayout
    \/ New
    \/ GenSimpleAssert
    \/ GenSimplePlace
    \/ GenReturn

SetupSpec == SetupInit /\ [][SetupNext]_vars

-----------------------------------------------------------------------------
(* netlist.rs : build_simple_netlist.  gnp_random_graph(n_nodes, 0.02, ..)   *)
(* returns a directed graph of n_nodes CLB nodes in which every ordered pair *)
(* of distinct nodes is an edge or not, independently; the node ids are      *)
(* random u32, modelled by the node indices.  Edges are (source, target)     *)
(* pairs of node indices.  n_nodes = 0 is left out: the generator rejects    *)
(* it and the unwrap aborts before there is a graph.                         *)

\* the largest n_nodes, and the largest n_io and n_bram
MaxNetlistNodes == 3
MaxRelabel == 1

\* the ordered pairs of distinct node indices, in lexicographic order
OrderedPairs(n) ==
    LET all == [k \in 1..(n * n) |-> <<((k - 1) \div n) + 1, ((k - 1) % n) + 1>>]
    IN  SelectSeq(all, LAMBDA p : p[1] # p[2])

\* the graphs gnp_random_graph can return for n_nodes = n
gnp_random_graph(n) ==
    {NetlistGraph([k \in 1..n |-> NetlistNode(k, CLB)],
                  SelectSeq(OrderedPairs(n), LAMBDA p : p \in chosen))
       : chosen \in SUBSET {OrderedPairs(n)[k] : k \in 1..Len(OrderedPairs(n))}}

\* graph.node_indices()
node_indices(g) == [k \in 1..Len(g.nodes) |-> k]

\* get_clb_node_indices
get_clb_node_indices(g) ==
    SelectSeq(node_indices(g), LAMBDA node_idx : g.nodes[node_idx].macro_type = CLB)

\* the loop `node.macro_type = ..` over the chosen node indices
relabel(g, indices, macro_type) ==
    NetlistGraph([k \in 1..Len(g.nodes) |->
                    IF \E j \in 1..Len(indices) : indices[j] = k
                    THEN NetlistNode(g.nodes[k].id, macro_type) ELSE g.nodes[k]],
                 g.edges)

\* graph.neighbors(idx).count() of a DiGraph: the edges that start at idx
neighbors_count(g, node_idx) ==
    Cardinality({e \in 1..Len(g.edges) : g.edges[e][1] = node_idx})

unconnected_node_indices(g) ==
    SelectSeq(node_indices(g), LAMBDA node_idx : neighbors_count(g, node_idx) = 0)

connected_node_indices(g) ==
    SelectSeq(node_indices(g), LAMBDA node_idx : neighbors_count(g, node_idx) > 0)

\* the graphs the repair loop can leave: one add_edge(connected, unconnected)
\* per unconnected node, the connected node drawn anew for each
connect_unconnected(g) ==
    LET unconnected == unconnected_node_indices(g)
        connected == connected_node_indices(g)
    IN  {NetlistGraph(g.nodes,
                      g.edges \o [j \in 1..Len(unconnected) |->
                                    <<connected[draw[j]], unconnected[j]>>])
           : draw \in [1..Len(unconnected) -> 1..Len(connected)]}

\* .expect("No connected nodes found") in the first iteration of the repair loop
connect_panics(g) ==
    Len(unconnected_node_indices(g)) > 0 /\ Len(connected_node_indices(g)) = 0

NetlistInit ==
    /\ layout = FPGALayout_new(0, 0)
    /\ \E n_nodes \in 1..MaxNetlistNodes : netlist \in gnp_random_graph(n_nodes)
    /\ solution_map = EmptyMap
    /\ next_node = 1
    /\ driver = "none"
    /\ n_steps = 0
    /\ n_neighbors = 0
    /\ i = 0
    /\ current_solution = EmptyMap
    /\ prev_solution = EmptyMap
    /\ actions = <<>>
    /\ new_solutions = <<>>
    /\ best_solution = NoSolution
    /\ pc = "gnp"
    /\ panic = NoPanic
    /\ result = NoResult

\* build_simple_netlist: n_io random CLB nodes become IO, then n_bram of the
\* remaining CLB nodes become BRAM
RelabelNodes ==
    /\ pc = "gnp"
    /\ \E n_io \in 0..MaxRelabel, n_bram \in 0..MaxRelabel :
         \E io_node_indices \in choose_multiple(get_clb_node_indices(netlist), n_io) :
            LET with_io == relabel(netlist, io_node_indices, IO) IN
            \E bram_node_indices \in choose_multiple(get_clb_node_indices(with_io), n_bram) :
               netlist' = relabel(with_io, bram_node_indices, BRAM)
    /\ pc' = "relabelled"
    /\ UNCHANGED <<layout, result, solution_map, next_node, driver_vars, panic>>

\* build_simple_netlist: the repair loop and the return
ConnectNodes ==
    /\ pc = "relabelled"
    /\ IF connect_panics(netlist)
       THEN Abort("No connected nodes found", "build_simple_netlist", 0)
            /\ UNCHANGED netlist
       ELSE /\ netlist' \in connect_unconnected(netlist)
            /\ pc' = "netlist"
            /\ panic' = panic
    /\ UNCHANGED <<layout, result, solution_map, next_node, driver_vars>>

NetlistNext ==
    \/ RelabelNodes
    \/ ConnectNodes

NetlistSpec == NetlistInit /\ [][NetlistNext]_vars

-----------------------------------------------------------------------------
(* Vocabulary of the properties, stated on the data and not through the      *)
(* operators above                                                           *)

\* the four validity invariants of a placement
TotalAssignment(sol) == \A k \in 1..node_count : all_nodes[k] \in DOMAIN sol

Injective(sol) == \A n, m \in DOMAIN sol : n # m => sol[n] # sol[m]

InBounds(sol) ==
    \A n \in DOMAIN sol : /\ sol[n].x >= 0 /\ sol[n].x < layout.width
                          /\ sol[n].y >= 0 /\ sol[n].y < layout.height

TypeCompatible(sol) ==
    \A n \in DOMAIN sol : /\ sol[n] \in DOMAIN layout.map
                          /\ layout.map[sol[n]] = n.macro_type

FourInvariants(sol) ==
    TotalAssignment(sol) /\ Injective(sol) /\ TypeCompatible(sol) /\ InBounds(sol)

\* the sites of a macro type, and those of them no node of sol is mapped to
SitesOfType(t) == {c \in DOMAIN layout.map : layout.map[c] = t}

FreeSitesOfType(sol, t) == {c \in SitesOfType(t) : \A n \in DOMAIN sol : sol[n] # c}

NodesOfType(t) == {k \in 1..node_count : all_nodes[k].macro_type = t}

UnderProvisioned ==
    \E t \in MacroTypeSet : Cardinality(NodesOfType(t)) > Cardinality(SitesOfType(t))

FullyConfigured ==
    \A x \in 0..(layout.width - 1), y \in 0..(layout.height - 1) :
        FPGALayoutCoordinate(x, y) \in DOMAIN layout.map

\* Manhattan distance and the wirelength, edge by edge
Manhattan(a, b) ==
    (IF a.x > b.x THEN a.x - b.x ELSE b.x - a.x) + (IF a.y > b.y THEN a.y - b.y ELSE b.y - a.y)

RECURSIVE EdgeSum(_, _)
EdgeSum(sol, E) ==
    IF E = {} THEN 0
    ELSE LET e == CHOOSE f \in E : TRUE
         IN  Manhattan(sol[all_nodes[netlist.edges[e][1]]], sol[all_nodes[netlist.edges[e][2]]])
             + EdgeSum(sol, E \ {e})

Wirelength(sol) == EdgeSum(sol, 1..Len(netlist.edges))

\* the integer-truncated centroid of the placed nodes
RECURSIVE CoordSum(_, _, _)
CoordSum(sol, N, axis) ==
    IF N = {} THEN 0
    ELSE LET n == CHOOSE m \in N : TRUE
         IN  (IF axis = "x" THEN sol[n].x ELSE sol[n].y) + CoordSum(sol, N \ {n}, axis)

Centroid(sol) ==
    FPGALayoutCoordinate(CoordSum(sol, DOMAIN sol, "x") \div Cardinality(DOMAIN sol),
                         CoordSum(sol, DOMAIN sol, "y") \div Cardinality(DOMAIN sol))

\* the free sites of type t nearest to the centroid
NearestFreeSites(sol, t) ==
    {c \in FreeSitesOfType(sol, t) :
        \A d \in FreeSitesOfType(sol, t) :
            Manhattan(c, Centroid(sol)) <= Manhattan(d, Centroid(sol))}

InSearch == driver # "none"

StepFinished == InSearch /\ pc = "sa_loop" /\ i > 0

\* the candidates generated so far in the running or last step
Candidates == {k \in 1..Len(new_solutions) : new_solutions[k] # NoSolution}

GenNames == {"gen_random_placement", "gen_simple_placement"}

-----------------------------------------------------------------------------
(* Properties *)

\* C1: in a search started from a valid solution, the current solution
\* satisfies the four validity invariants (total, injective, type compatible,
\* in bounds) at every point of every step, whatever the step count, the
\* number of neighbours and the random choices.
C1_SearchKeepsValidity == InSearch => FourInvariants(current_solution)

\* a step has ended with a current solution that differs from the initial one
C1_Witness ==
    /\ driver = "fast" /\ pc = "sa_loop" /\ i >= 1
    /\ current_solution # solution_map

\* C2: the cost of the current solution never increases from one state of the
\* search to the next, hence not from before a step to after it.
C2_CostNonIncreasing ==
    [][InSearch => cost_bb(current_solution') <= cost_bb(current_solution)]_vars

\* a step has strictly decreased the cost
C2_Witness ==
    /\ StepFinished
    /\ cost_bb(current_solution) < cost_bb(prev_solution)

\* C3: after a step, the current solution is the selected best candidate if
\* that candidate's cost is strictly less than the cost before the step, and
\* is otherwise the solution the step started from.
C3_ReplacedIffStrictlyBetter ==
    (StepFinished /\ best_solution # NoSolution) =>
        IF best_solution.cost < Wirelength(prev_solution)
        THEN current_solution = best_solution.solution_map
             /\ current_solution # prev_solution
        ELSE current_solution = prev_solution

\* the best candidate of a step tied the current cost with a different
\* placement, and the current solution was kept
C3_Witness ==
    /\ StepFinished
    /\ best_solution # NoSolution
    /\ best_solution.cost = Wirelength(prev_solution)
    /\ best_solution.solution_map # prev_solution
    /\ current_solution = prev_solution

\* C4: the candidate compared against the current solution is one of the
\* candidates of the step and no candidate of the step costs less.
C4_BestIsMinimum ==
    (StepFinished /\ best_solution # NoSolution) =>
        /\ \E k \in 1..Len(new_solutions) : new_solutions[k] = best_solution
        /\ \A k \in 1..Len(new_solutions) :
              best_solution.cost <= Wirelength(new_solutions[k].solution_map)

\* the best candidate was not the first one generated and beat the first
C4_Witness ==
    /\ StepFinished
    /\ Len(new_solutions) >= 2
    /\ best_solution # NoSolution
    /\ best_solution.cost < new_solutions[1].cost
    /\ \E k \in 2..Len(new_solutions) : new_solutions[k].cost > best_solution.cost

\* C5: on every total solution cost_bb is the sum, over the edges counted once
\* each (parallel and antiparallel edges each contribute, a self-loop adds 0),
\* of the Manhattan distance between the coordinates of the two endpoints.
C5_CostIsWirelength ==
    /\ TotalAssignment(solution_map) => cost_bb(solution_map) = Wirelength(solution_map)
    /\ InSearch => cost_bb(current_solution) = Wirelength(current_solution)
    /\ \A k \in Candidates :
          new_solutions[k].cost = Wirelength(new_solutions[k].solution_map)

\* a total solution of the netlist with parallel edges whose endpoints are apart
C5_Witness ==
    /\ netlist = NetlistPair
    /\ TotalAssignment(solution_map)
    /\ solution_map[all_nodes[1]] # solution_map[all_nodes[2]]
    /\ cost_bb(solution_map) >= 3

\* C6: when some macro type has more nodes than sites, gen_random_placement
\* and gen_simple_placement abort at the capacity assertion with no node
\* placed; they never enter the placement loop and never return a solution.
C6_CapacityFailsFast ==
    UnderProvisioned =>
        /\ pc \notin GenNames
        /\ pc # "placed"
        /\ panic.action \in GenNames =>
              (panic.at = "capacity assert" /\ solution_map = EmptyMap)

\* a generator aborted at the capacity assertion of an under-provisioned type
C6_Witness ==
    /\ UnderProvisioned
    /\ pc = "aborted"
    /\ panic.action \in GenNames
    /\ panic.at = "capacity assert"

\* C7: when every macro type has at least as many sites as nodes and every
\* grid coordinate is configured, both generators find a free site of the
\* right type for each node in turn, never abort and return a solution that
\* satisfies the four validity invariants.
C7_GeneratorsSucceed ==
    (~UnderProvisioned /\ FullyConfigured) =>
        /\ panic.action \notin GenNames
        /\ (pc \in GenNames /\ next_node <= node_count) =>
              FreeSitesOfType(solution_map, all_nodes[next_node].macro_type) # {}
        /\ pc = "placed" => FourInvariants(solution_map) /\ valid(solution_map)

\* a generator returned on the layout with exactly as many CLB sites as CLB nodes
C7_Witness ==
    /\ pc = "placed"
    /\ layout = LayoutTight
    /\ node_count > 0

\* C8 (as claimed): action_move on a valid solution in which the drawn node's
\* macro type has no free site returns normally and leaves the solution valid
\* and its map unchanged.
C8_MoveWithoutFreeSiteIsNoOp ==
    /\ ~ /\ pc = "aborted"
         /\ panic.action = MOVE
         /\ panic.node > 0
         /\ FreeSitesOfType(current_solution, all_nodes[panic.node].macro_type) = {}
    /\ \A k \in Candidates :
          (/\ new_solutions[k].action = MOVE
           /\ new_solutions[k].node > 0
           /\ FreeSitesOfType(prev_solution, all_nodes[new_solutions[k].node].macro_type) = {})
          => /\ new_solutions[k].solution_map = prev_solution
             /\ FourInvariants(new_solutions[k].solution_map)

\* C9 (as claimed): action_move_directed on a valid total solution in which
\* the drawn node's macro type has no free site returns normally and leaves
\* the map unchanged, and the step goes on to score the unchanged clone
\* (stated for layouts with every coordinate configured).
C9_MoveDirectedWithoutFreeSiteIsNoOp ==
    FullyConfigured =>
        /\ ~ /\ pc = "aborted"
             /\ panic.action = MOVE_DIRECTED
             /\ panic.node > 0
             /\ FreeSitesOfType(current_solution, all_nodes[panic.node].macro_type) = {}
        /\ \A k \in Candidates :
              (/\ new_solutions[k].action = MOVE_DIRECTED
               /\ new_solutions[k].node > 0
               /\ FreeSitesOfType(prev_solution,
                                  all_nodes[new_solutions[k].node].macro_type) = {})
              => new_solutions[k].solution_map = prev_solution

\* the distances action_move_directed compares, for candidate k
C10_Node(k) == all_nodes[new_solutions[k].node]

C10_CurrentDistance(k) == Manhattan(prev_solution[C10_Node(k)], Centroid(prev_solution))

C10_NearestSites(k) == NearestFreeSites(prev_solution, C10_Node(k).macro_type)

C10_NearestDistance(k) ==
    Manhattan(CHOOSE c \in C10_NearestSites(k) : TRUE, Centroid(prev_solution))

C10_Directed == {k \in Candidates : new_solutions[k].action = MOVE_DIRECTED}

C11_Swapped == {k \in Candidates : new_solutions[k].action = SWAP}

\* C11: action_swap on a valid total solution either leaves the map unchanged
\* or exchanges the coordinates of the drawn node A and one other node of the
\* same macro type; every other node keeps its coordinate, the set of occupied
\* coordinates is the same, the four validity invariants still hold, and when
\* A is the only node of its type the map is unchanged.
C11_SwapExchangesSameType ==
    \A k \in C11_Swapped :
        LET new == new_solutions[k].solution_map
            a == all_nodes[new_solutions[k].node]
        IN  /\ \/ new = prev_solution
               \/ \E b \in DOMAIN prev_solution :
                     /\ b # a
                     /\ b.macro_type = a.macro_type
                     /\ DOMAIN new = DOMAIN prev_solution
                     /\ new[a] = prev_solution[b]
                     /\ new[b] = prev_solution[a]
                     /\ \A n \in DOMAIN prev_solution \ {a, b} : new[n] = prev_solution[n]
            /\ {new[n] : n \in DOMAIN new} = {prev_solution[n] : n \in DOMAIN prev_solution}
            /\ FourInvariants(new)
            /\ Cardinality(NodesOfType(a.macro_type)) = 1 => new = prev_solution

\* in one step, a SWAP exchanged two nodes and another SWAP drew a node that
\* is alone in its type
C11_Witness ==
    /\ \E k \in C11_Swapped : new_solutions[k].solution_map # prev_solution
    /\ \E k \in C11_Swapped :
          Cardinality(NodesOfType(all_nodes[new_solutions[k].node].macro_type)) = 1

\* C12 (as claimed): action_move on a valid total solution in which the drawn
\* node's macro type has a free site returns normally and moves exactly that
\* node to a coordinate that was free and has the node's macro type; every
\* other node keeps its coordinate and the four validity invariants hold.
C12_MoveRelocatesToFreeSite ==
    /\ ~ /\ pc = "aborted"
         /\ panic.action = MOVE
         /\ panic.node > 0
         /\ FreeSitesOfType(current_solution, all_nodes[panic.node].macro_type) # {}
    /\ \A k \in Candidates :
          (/\ new_solutions[k].action = MOVE
           /\ new_solutions[k].node > 0
           /\ FreeSitesOfType(prev_solution, all_nodes[new_solutions[k].node].macro_type) # {})
          => LET new == new_solutions[k].solution_map
                 a == all_nodes[new_solutions[k].node]
             IN  /\ \E c \in FreeSitesOfType(prev_solution, a.macro_type) :
                       new = Insert(prev_solution, a, c)
                 /\ new[a] # prev_solution[a]
                 /\ prev_solution[a] \notin {new[n] : n \in DOMAIN new}
                 /\ FourInvariants(new)

C15_FreeOfType(sol, t) ==
    {c \in {FPGALayoutCoordinate(x, y) :
               x \in 0..(layout.width - 1), y \in 0..(layout.height - 1)} :
        /\ c \in DOMAIN layout.map
        /\ layout.map[c] = t
        /\ \A n \in DOMAIN sol : sol[n] # c}

\* C15: on a layout with every grid coordinate configured, for every macro
\* type t and every solution the program holds (partial, total, being
\* searched), get_possible_sites(t) lists exactly the grid coordinates of
\* layout type t that no node is mapped to, each of them once.
C15_PossibleSitesExact ==
    FullyConfigured =>
        \A t \in MacroTypeSet :
            \A sol \in {solution_map, current_solution} :
                LET sites == get_possible_sites(sol, t)
                    free == C15_FreeOfType(sol, t)
                IN  /\ {sites[k] : k \in 1..Len(sites)} = free
                    /\ Len(sites) = Cardinality(free)

\* gen_random_placement is about to place its last node on a fully configured
\* layout where the node's type has both an occupied and a free site
C15_Witness ==
    /\ FullyConfigured
    /\ pc = "gen_random_placement"
    /\ next_node = node_count
    /\ next_node > 1
    /\ LET t == all_nodes[next_node].macro_type
       IN  /\ get_possible_sites(solution_map, t) # <<>>
           /\ \E n \in DOMAIN solution_map : n.macro_type = t

\* the grid coordinates that no config_* call inserted into the map
C16_Unconfigured ==
    {c \in {FPGALayoutCoordinate(x, y) :
               x \in 0..(layout.width - 1), y \in 0..(layout.height - 1)} :
        c \notin DOMAIN layout.map}

\* the lookups through FPGALayout::get and count_summary treat an
\* unconfigured grid coordinate as EMPTY, and only coordinates outside the
\* grid as None
C16_GetDefaultsToEmpty ==
    /\ \A c \in C16_Unconfigured : get(c) = EMPTY
    /\ \A c \in PlaceableCoordinates :
          get(c) = None <=> (c.x >= layout.width \/ c.y >= layout.height)
    /\ layout_count_summary(EMPTY)
          = Cardinality(C16_Unconfigured)
            + Cardinality({c \in DOMAIN layout.map : layout.map[c] = EMPTY})

\* C16 (as claimed): a grid coordinate that was never configured resolves to
\* EMPTY in every lookup: FPGALayout::get returns EMPTY for it, count_summary
\* counts it as EMPTY, and get_possible_sites skips it and never aborts on it.
C16_UnconfiguredIsEmpty ==
    /\ C16_GetDefaultsToEmpty
    /\ ~(pc = "aborted" /\ panic.at = "get_possible_sites")

\* C17 (as claimed): cost_bb called on a solution in which some netlist node
\* has no coordinate aborts and never returns a cost, whichever node it is:
\* a call that returned was made on a total solution.
C17_CostOfPartialAborts ==
    (pc = "returned" /\ result.call = "cost_bb") => TotalAssignment(solution_map)

\* C18 (as claimed): valid() returns, and returns true exactly when the
\* solution satisfies the four validity invariants; for a solution that
\* violates one of them, one with a node mapped outside the grid included, it
\* returns false.
C18_ValidDecidesInvariants ==
    /\ ~(pc = "aborted" /\ panic.action = "valid")
    /\ (pc = "returned" /\ result.call = "valid") =>
          (result.valid <=> FourInvariants(solution_map))

\* the second conjunct of C18 alone: whenever valid() returns, what it
\* returns is whether the four validity invariants hold
C18_ReturnedValueIsExact ==
    (pc = "returned" /\ result.call = "valid") =>
        (result.valid <=> FourInvariants(solution_map))

\* the loop counter never passes the budget and the driver returns only when
\* the budget is used up
C19_BudgetIsExact ==
    InSearch => /\ i <= n_steps
                /\ pc = "done" => i = n_steps

\* C19 (as claimed): a search started from a valid total solution of a
\* non-empty netlist with n_neighbors >= 1 never stops before its budget: it
\* does not abort, it never runs a step beyond n_steps, and when it returns
\* it has performed exactly n_steps steps.
C19_RunsExactlyBudget ==
    (InSearch /\ n_neighbors >= 1 /\ node_count > 0) =>
        /\ pc # "aborted"
        /\ C19_BudgetIsExact

\* C21: a call of place_node gives one node its coordinate, as a new entry or
\* in place of the old one, and leaves the entry of every other node as it
\* was, also when the coordinate is occupied or of another site type; a call
\* of valid() that then returns on a solution with a shared coordinate or
\* with a node on a site of another type returns false, and valid() aborts
\* only on a solution with a coordinate outside the grid.
C21_PlaceNodeSetsOneEntry ==
    [][/\ (pc = "new" /\ pc' = "new") =>
             \E k \in 1..node_count :
                /\ DOMAIN solution_map' = DOMAIN solution_map \cup {all_nodes[k]}
                /\ \A m \in DOMAIN solution_map \ {all_nodes[k]} :
                      solution_map'[m] = solution_map[m]
       /\ (pc = "new" /\ pc' = "returned" /\ result'.call = "valid"
             /\ (~Injective(solution_map) \/ ~TypeCompatible(solution_map)))
             => ~result'.valid
       /\ (pc = "new" /\ pc' = "aborted" /\ panic'.action = "valid")
             => ~InBounds(solution_map)
      ]_vars

\* place_node has put two nodes on one coordinate of the grid, one of them at
\* least on a site of another type, and valid() has returned false
C21_Witness ==
    /\ pc = "returned"
    /\ result.call = "valid"
    /\ ~result.valid
    /\ TotalAssignment(solution_map)
    /\ ~Injective(solution_map)
    /\ InBounds(solution_map)
    /\ \E n \in DOMAIN solution_map : get(solution_map[n]) # n.macro_type

\* the nodes whose coordinate differs between two solutions over the same nodes
Moved(old, new) == {n \in DOMAIN old : new[n] # old[n]}

\* new is old, or old after one application of a move operator: one node on a
\* site that was free in old, or two nodes of one macro type exchanged
OneOperatorAway(old, new) ==
    /\ DOMAIN new = DOMAIN old
    /\ \/ Moved(old, new) = {}
       \/ \E a \in DOMAIN old :
             /\ Moved(old, new) = {a}
             /\ \A n \in DOMAIN old : old[n] # new[a]
       \/ \E a, b \in DOMAIN old :
             /\ a # b
             /\ a.macro_type = b.macro_type
             /\ Moved(old, new) = {a, b}
             /\ new[a] = old[b]
             /\ new[b] = old[a]

\* the tasks of the running step of placer_sa that have delivered their result
C22_Delivered == {k \in 1..Len(new_solutions) : new_solutions[k] # NoSolution}

\* C22: while the candidate tasks of a step of placer_sa run, in whatever
\* order they finish, a finishing task fills its own slot and changes neither
\* the current solution nor the result of any sibling task, and each result
\* is one operator application away from the current solution and carries
\* the cost of its own map, whatever the siblings have delivered.
C22_CandidatesArePrivate ==
    [][(driver = "par" /\ pc = "sa_gen" /\ pc' = "sa_gen") =>
          /\ current_solution' = current_solution
          /\ solution_map' = solution_map
          /\ Len(new_solutions') = Len(new_solutions)
          /\ \E k \in 1..Len(new_solutions) \ C22_Delivered :
                /\ \A j \in 1..Len(new_solutions) \ {k} :
                      new_solutions'[j] = new_solutions[j]
                /\ OneOperatorAway(current_solution, new_solutions'[k].solution_map)
                /\ new_solutions'[k].cost = Wirelength(new_solutions'[k].solution_map)
      ]_vars

\* a later task of a step of placer_sa has delivered a changed candidate
\* while an earlier task of the step is still running
C22_Witness ==
    /\ driver = "par"
    /\ pc = "sa_gen"
    /\ \E j, k \in 1..Len(new_solutions) :
          /\ j < k
          /\ new_solutions[j] = NoSolution
          /\ new_solutions[k] # NoSolution
          /\ new_solutions[k].solution_map # current_solution

\* C23: in placer_sa the selection is a barrier.  The current solution and
\* the step counter change only in the selection, and the selection runs only
\* when all n_neighbors tasks of the step have delivered; a step begins with
\* no candidate, and every candidate delivered in it is one operator
\* application away from the solution the previous selection left, which
\* stays the current solution until the step's own selection.
C23_SelectionIsBarrier ==
    [][driver = "par" =>
          /\ (current_solution' # current_solution \/ i' # i) =>
                /\ pc = "sa_gen" /\ pc' = "sa_loop"
                /\ i' = i + 1
                /\ Len(new_solutions) = n_neighbors
                /\ \A k \in 1..n_neighbors : new_solutions[k] # NoSolution
          /\ (pc = "sa_loop" /\ pc' = "sa_gen") =>
                /\ Len(new_solutions') = n_neighbors
                /\ \A k \in 1..n_neighbors : new_solutions'[k] = NoSolution
                /\ prev_solution' = current_solution
          /\ (pc = "sa_gen" /\ pc' = "sa_gen") =>
                /\ current_solution = prev_solution
                /\ \A k \in 1..Len(new_solutions') :
                      new_solutions'[k] # NoSolution =>
                          OneOperatorAway(prev_solution, new_solutions'[k].solution_map)
      ]_vars

\* the second step of a run of placer_sa with two tasks has delivered a
\* candidate, after the first step committed a new current solution
C23_Witness ==
    /\ driver = "par"
    /\ pc = "sa_gen"
    /\ i = 1
    /\ n_neighbors = 2
    /\ current_solution # solution_map
    /\ \E k \in 1..Len(new_solutions) : new_solutions[k] # NoSolution

\* C24: whenever a step of either driver changes the current solution, the
\* new solution assigns the same nodes and differs from the previous one in
\* the coordinate of exactly one node, moved to a site that was free, when
\* the accepted candidate came from MOVE or MOVE_DIRECTED, and in the
\* exchanged coordinates of exactly two nodes of one macro type when it came
\* from SWAP.
C24_AcceptedIsNeighbour ==
    [][(InSearch /\ current_solution' # current_solution) =>
          /\ OneOperatorAway(current_solution, current_solution')
          /\ current_solution' = best_solution'.solution_map
          /\ best_solution'.action \in {MOVE, MOVE_DIRECTED} =>
                Cardinality(Moved(current_solution, current_solution')) = 1
          /\ best_solution'.action = SWAP =>
                Cardinality(Moved(current_solution, current_solution')) = 2
      ]_vars

\* a step has just accepted a candidate of SWAP that exchanged two nodes of
\* one macro type and lowered the cost
C24_Witness ==
    /\ StepFinished
    /\ current_solution # prev_solution
    /\ best_solution.action = SWAP
    /\ current_solution = best_solution.solution_map
    /\ Cardinality(Moved(prev_solution, current_solution)) = 2
    /\ Wirelength(current_solution) < Wirelength(prev_solution)

\* C25: in a layout of width and height at least 1, whatever config_corners,
\* config_border and config_repeat calls have been made on it (regions that
\* start or end outside the grid included), every key of the map lies within
\* [0, width) x [0, height), and a call of FPGALayout::valid returns true.
C25_ConfiguredKeysInGrid ==
    (layout.width >= 1 /\ layout.height >= 1) =>
        /\ \A c \in DOMAIN layout.map :
              /\ c.x >= 0 /\ c.x < layout.width
              /\ c.y >= 0 /\ c.y < layout.height
        /\ (pc = "checked" /\ result.call = "layout.valid") => result.valid

\* valid() has returned true for a 2x2 layout whose only key is (1,1): it was
\* written by a config_repeat over a region that starts at (1,1) and ends
\* outside the grid
C25_Witness ==
    /\ pc = "checked"
    /\ result.call = "layout.valid"
    /\ result.valid
    /\ layout.width = 2
    /\ layout.height = 2
    /\ DOMAIN layout.map = {FPGALayoutCoordinate(1, 1)}

\* the layout build_simple_fpga_layout(4, 4) is expected to return: EMPTY
\* corners, IO on the rest of the border, CLB on the four interior sites
C26_Simple4x4 ==
    FPGALayout(4, 4, <<EMPTY, IO, IO, EMPTY,
                       IO, CLB, CLB, IO,
                       IO, CLB, CLB, IO,
                       EMPTY, IO, IO, EMPTY>>)

\* C26: gen_simple_placement places the nodes in netlist order, one per
\* iteration, each on a site that was free and of the node's macro type when
\* the node was placed and that had the least x + y of all such sites; on the
\* 4x4 simple layout two CLB nodes joined by one edge end on CLB sites that
\* no free CLB site is nearer to the origin than, at cost 1.
C26_GreedyNearestOrigin ==
    /\ [][(pc = "gen_simple_placement" /\ next_node' # next_node) =>
             LET node == all_nodes[next_node]
                 free == FreeSitesOfType(solution_map, node.macro_type)
             IN  /\ next_node' = next_node + 1
                 /\ DOMAIN solution_map = {all_nodes[k] : k \in 1..(next_node - 1)}
                 /\ DOMAIN solution_map' = DOMAIN solution_map \cup {node}
                 /\ \A n \in DOMAIN solution_map : solution_map'[n] = solution_map[n]
                 /\ solution_map'[node] \in free
                 /\ \A c \in free :
                       solution_map'[node].x + solution_map'[node].y <= c.x + c.y
         ]_vars
    /\ []((pc = "placed" /\ layout = C26_Simple4x4 /\ netlist = NetlistEdge) =>
             /\ solution_map[all_nodes[1]] = FPGALayoutCoordinate(1, 1)
             /\ \A n \in DOMAIN solution_map, c \in FreeSitesOfType(solution_map, CLB) :
                   solution_map[n].x + solution_map[n].y <= c.x + c.y
             /\ Wirelength(solution_map) = 1)

\* gen_simple_placement has returned the placement of the two connected CLB
\* nodes on the 4x4 simple layout
C26_Witness ==
    /\ pc = "placed"
    /\ layout = C26_Simple4x4
    /\ netlist = NetlistEdge
    /\ DOMAIN solution_map = {all_nodes[1], all_nodes[2]}
    /\ Wirelength(solution_map) = 1

\* the edges of g incident to node index k, in either direction
C27_Incident(g, k) == {e \in 1..Len(g.edges) : g.edges[e][1] = k \/ g.edges[e][2] = k}

\* C27: when build_simple_netlist returns every node has an incident edge;
\* the repair step keeps the edges there were and adds one edge for each
\* node that had no edge in either direction, from or to a node that had an
\* edge, and adds no edge for a node that had an edge.
C27_RepairOnlyIsolated ==
    [][(pc = "relabelled" /\ pc' = "netlist") =>
          LET old == Len(netlist.edges)
              added == (old + 1)..Len(netlist'.edges)
              isolated == {k \in 1..node_count : C27_Incident(netlist, k) = {}}
          IN  /\ netlist'.nodes = netlist.nodes
              /\ SubSeq(netlist'.edges, 1, old) = netlist.edges
              /\ \A k \in 1..node_count : C27_Incident(netlist', k) # {}
              /\ \A e \in added :
                    \E k \in isolated, c \in (1..node_count) \ isolated :
                       {netlist'.edges[e][1], netlist'.edges[e][2]} = {k, c}
              /\ \A k \in isolated :
                    Cardinality({e \in added : k \in {netlist'.edges[e][1],
                                                      netlist'.edges[e][2]}}) = 1
      ]_vars

\* C28: the layout build_simple_fpga_layout(w, h) returns for w, h >= 3 has
\* EMPTY corners, IO on every other border coordinate, BRAM on the interior
\* coordinates whose x is a multiple of 10 and CLB on the other interior
\* coordinates; no border coordinate is BRAM.
C28_SimpleLayoutRings ==
    (pc = "built" /\ layout.width >= 3 /\ layout.height >= 3) =>
        \A x \in 0..(layout.width - 1), y \in 0..(layout.height - 1) :
            LET on_x_border == x = 0 \/ x = layout.width - 1
                on_y_border == y = 0 \/ y = layout.height - 1
            IN  get(FPGALayoutCoordinate(x, y)) =
                   IF on_x_border /\ on_y_border THEN EMPTY
                   ELSE IF on_x_border \/ on_y_border THEN IO
                   ELSE IF x % 10 = 0 THEN BRAM
                   ELSE CLB

C30_EmptyNetlist ==
    /\ []((InSearch /\ node_count = 0) =>
             /\ current_solution = EmptyMap
             /\ \A k \in Candidates :
                   /\ new_solutions[k].action \in {MOVE, SWAP}
                   /\ new_solutions[k].solution_map = current_solution
             /\ pc = "aborted" =>
                   /\ driver = "fast"
                   /\ \/ panic = [at |-> "node_count == 0", action |-> MOVE_DIRECTED,
                                  node |-> 0]
                      \/ n_neighbors = 0
             /\ (driver = "fast" /\ StepFinished) =>
                   \A k \in 1..Len(actions) : actions[k] # MOVE_DIRECTED
             /\ (driver = "fast" /\ n_neighbors >= 3 /\ n_steps >= 1) =>
                   i = 0 /\ pc # "done")
    /\ [][(driver = "fast" /\ node_count = 0 /\ pc = "sa_gen"
             /\ Len(new_solutions) < Len(actions)
             /\ actions[Len(new_solutions) + 1] = MOVE_DIRECTED) => pc' = "aborted"]_vars

\* fast_sa_placer over the netlist without nodes, with all three operator
\* kinds drawn, has aborted in MOVE_DIRECTED after a candidate of MOVE or SWAP
\* was generated unchanged
C30_Witness ==
    /\ driver = "fast"
    /\ node_count = 0
    /\ n_neighbors >= 3
    /\ i = 0
    /\ pc = "aborted"
    /\ panic.action = MOVE_DIRECTED
    /\ Len(new_solutions) >= 1
    /\ new_solutions[1].solution_map = EmptyMap

====
